---- MODULE Spec2Model ----
(***************************************************************************)
(* A model of amq-protocol's primitive type catalogue                      *)
(* (types/src/types.rs: AMQPType, from_id, get_id, Display) and of the     *)
(* protocol definition loader (codegen/src/specs.rs:                       *)
(* AMQProtocolDefinition::load).                                           *)
(*                                                                         *)
(* Spec      drives the type catalogue: a caller picks a character and a   *)
(*           variant and applies from_id, get_id, to_string and their      *)
(*           compositions.                                                 *)
(* LoadSpec  drives load(): the expression of specs.rs:41 evaluated step   *)
(*           by step, in Rust's evaluation order.                          *)
(***************************************************************************)
EXTENDS Integers, Sequences, FiniteSets, TLC

VARIABLES
    id,              \* the char handed to from_id
    self,            \* the AMQPType handed to get_id / to_string
    from_id_ret,     \* <<>> until from_id(id) has returned, then <<Option>>
    get_id_ret,      \* <<>> until self.get_id() has returned, then <<char>>
    to_string_ret,   \* <<>> until self.to_string() has returned, then <<String>>
    roundtrip_ret,   \* <<>> until from_id(self.get_id()) has returned
    back_id_ret,     \* <<>> until from_id(id).unwrap().get_id() has returned
    back_type_ret,   \* <<>> until from_id(<back_id_ret>) has returned
    specs,           \* load: the bundled resource (include_str!)
    metadata,        \* load: the argument, an Option<Value>
    pc,              \* load: the call of specs.rs:41 to be evaluated next
    parsed,          \* load: <<>> until from_str has returned, then <<Result>>
    raw,             \* load: <<>> until expect has returned, then its value
    md,              \* load: <<>> until unwrap_or_default has returned
    definition       \* load: <<>> until load has returned, then its value

typeVars == <<id, self, from_id_ret, get_id_ret, to_string_ret,
              roundtrip_ret, back_id_ret, back_type_ret>>

loadVars == <<specs, metadata, pc, parsed, raw, md, definition>>

(***************************************************************************)
(* Bounds.                                                                 *)
(***************************************************************************)
\* chars are modelled by their code points 0..MaxChar (ASCII and one beyond)
MaxChar == 127
\* the bundled resources tried have up to MaxClasses classes
MaxClasses == 2

(***************************************************************************)
(* Rust values.                                                            *)
(***************************************************************************)
\* Option<T>
None == [some |-> FALSE]
Some(v) == [some |-> TRUE, val |-> v]

\* the code point of a char literal, for the literals the source uses
UpperCase == <<"A", "B", "C", "D", "E", "F", "G", "H", "I", "J", "K", "L", "M",
               "N", "O", "P", "Q", "R", "S", "T", "U", "V", "W", "X", "Y", "Z">>
LowerCase == <<"a", "b", "c", "d", "e", "f", "g", "h", "i", "j", "k", "l", "m",
               "n", "o", "p", "q", "r", "s", "t", "u", "v", "w", "x", "y", "z">>
Ord(ch) ==
    IF ch = "_" THEN 95
    ELSE IF \E i \in 1..26 : UpperCase[i] = ch
         THEN 64 + (CHOOSE i \in 1..26 : UpperCase[i] = ch)
         ELSE 96 + (CHOOSE i \in 1..26 : LowerCase[i] = ch)

Chars == 0..MaxChar

(***************************************************************************)
(* enum AMQPType: the variants, by discriminant (declaration order).       *)
(***************************************************************************)
Boolean == 0
ShortShortInt == 1
ShortShortUInt == 2
ShortInt == 3
ShortUInt == 4
LongInt == 5
LongUInt == 6
LongLongInt == 7
LongLongUInt == 8
Float == 9
Double == 10
DecimalValue == 11
ShortString == 12
LongString == 13
FieldArray == 14
Timestamp == 15
FieldTable == 16
ByteArray == 17
Void == 18

AMQPType == {Boolean, ShortShortInt, ShortShortUInt, ShortInt, ShortUInt,
             LongInt, LongUInt, LongLongInt, LongLongUInt, Float, Double,
             DecimalValue, ShortString, LongString, FieldArray, Timestamp,
             FieldTable, ByteArray, Void}

(***************************************************************************)
(* Mutant of from_id: the tag table of the formal AMQP 0.9.1 grammar, which *)
(* the doc comment of from_id says the code departs from ('s' ShortString, *)
(* 'L' LongLongUInt).                                                      *)
(***************************************************************************)
from_id_amqp_spec(c) ==
    CASE c = Ord("t") -> Some(Boolean)
      [] c = Ord("b") -> Some(ShortShortInt)
      [] c = Ord("B") -> Some(ShortShortUInt)
      [] c = Ord("s") -> Some(ShortString)
      [] c = Ord("U") -> Some(ShortInt)
      [] c = Ord("u") -> Some(ShortUInt)
      [] c = Ord("I") -> Some(LongInt)
      [] c = Ord("i") -> Some(LongUInt)
      [] c = Ord("L") -> Some(LongLongUInt)
      [] c = Ord("l") -> Some(LongLongInt)
      [] c = Ord("f") -> Some(Float)
      [] c = Ord("d") -> Some(Double)
      [] c = Ord("D") -> Some(DecimalValue)
      [] c = Ord("S") -> Some(LongString)
      [] c = Ord("A") -> Some(FieldArray)
      [] c = Ord("T") -> Some(Timestamp)
      [] c = Ord("F") -> Some(FieldTable)
      [] c = Ord("x") -> Some(ByteArray)
      [] c = Ord("V") -> Some(Void)
      [] OTHER -> None

(***************************************************************************)
(* AMQPType::from_id                                                       *)
(***************************************************************************)
from_id(c) ==
    CASE c = Ord("t") -> Some(Boolean)
      [] c = Ord("b") -> Some(ShortShortInt)
      [] c = Ord("B") -> Some(ShortShortUInt)
      [] c = Ord("s") \/ c = Ord("U") -> Some(ShortInt)
      [] c = Ord("u") -> Some(ShortUInt)
      [] c = Ord("I") -> Some(LongInt)
      [] c = Ord("i") -> Some(LongUInt)
      [] c = Ord("L") \/ c = Ord("l") -> Some(LongLongInt)
      [] c = Ord("f") -> Some(Float)
      [] c = Ord("d") -> Some(Double)
      [] c = Ord("D") -> Some(DecimalValue)
      [] c = Ord("S") -> Some(LongString)
      [] c = Ord("A") -> Some(FieldArray)
      [] c = Ord("T") -> Some(Timestamp)
      [] c = Ord("F") -> Some(FieldTable)
      [] c = Ord("x") -> Some(ByteArray)
      [] c = Ord("V") -> Some(Void)
      [] OTHER -> None

(***************************************************************************)
(* Mutants of get_id.  get_id_amqp_spec answers with the tags of the       *)
(* formal grammar (ShortInt 'U', LongLongUInt 'L', ShortString 's');       *)
(* get_id_typo has the wrong case in the ByteArray arm.                    *)
(***************************************************************************)
get_id_amqp_spec(t) ==
    CASE t = Boolean -> Ord("t")
      [] t = ShortShortInt -> Ord("b")
      [] t = ShortShortUInt -> Ord("B")
      [] t = ShortInt -> Ord("U")
      [] t = ShortUInt -> Ord("u")
      [] t = LongInt -> Ord("I")
      [] t = LongUInt -> Ord("i")
      [] t = LongLongInt -> Ord("l")
      [] t = LongLongUInt -> Ord("L")
      [] t = Float -> Ord("f")
      [] t = Double -> Ord("d")
      [] t = DecimalValue -> Ord("D")
      [] t = ShortString -> Ord("s")
      [] t = LongString -> Ord("S")
      [] t = FieldArray -> Ord("A")
      [] t = Timestamp -> Ord("T")
      [] t = FieldTable -> Ord("F")
      [] t = ByteArray -> Ord("x")
      [] t = Void -> Ord("V")

get_id_typo(t) ==
    CASE t = Boolean -> Ord("t")
      [] t = ShortShortInt -> Ord("b")
      [] t = ShortShortUInt -> Ord("B")
      [] t = ShortInt -> Ord("s")
      [] t = ShortUInt -> Ord("u")
      [] t = LongInt -> Ord("I")
      [] t = LongUInt -> Ord("i")
      [] t = LongLongInt \/ t = LongLongUInt -> Ord("l")
      [] t = Float -> Ord("f")
      [] t = Double -> Ord("d")
      [] t = DecimalValue -> Ord("D")
      [] t = ShortString -> Ord("_")
      [] t = LongString -> Ord("S")
      [] t = FieldArray -> Ord("A")
      [] t = Timestamp -> Ord("T")
      [] t = FieldTable -> Ord("F")
      [] t = ByteArray -> Ord("X")
      [] t = Void -> Ord("V")

(***************************************************************************)
(* AMQPType::get_id                                                        *)
(***************************************************************************)
get_id(t) ==
    CASE t = Boolean -> Ord("t")
      [] t = ShortShortInt -> Ord("b")
      [] t = ShortShortUInt -> Ord("B")
      [] t = ShortInt -> Ord("s")
      [] t = ShortUInt -> Ord("u")
      [] t = LongInt -> Ord("I")
      [] t = LongUInt -> Ord("i")
      [] t = LongLongInt \/ t = LongLongUInt -> Ord("l")
      [] t = Float -> Ord("f")
      [] t = Double -> Ord("d")
      [] t = DecimalValue -> Ord("D")
      [] t = ShortString -> Ord("_")
      [] t = LongString -> Ord("S")
      [] t = FieldArray -> Ord("A")
      [] t = Timestamp -> Ord("T")
      [] t = FieldTable -> Ord("F")
      [] t = ByteArray -> Ord("x")
      [] t = Void -> Ord("V")

(***************************************************************************)
(* #[derive(Debug)] on a field-less enum writes the variant's identifier;  *)
(* Display::fmt is write!(f, "{:?}", self); to_string collects fmt.        *)
(***************************************************************************)
Debug(t) ==
    CASE t = Boolean -> "Boolean"
      [] t = ShortShortInt -> "ShortShortInt"
      [] t = ShortShortUInt -> "ShortShortUInt"
      [] t = ShortInt -> "ShortInt"
      [] t = ShortUInt -> "ShortUInt"
      [] t = LongInt -> "LongInt"
      [] t = LongUInt -> "LongUInt"
      [] t = LongLongInt -> "LongLongInt"
      [] t = LongLongUInt -> "LongLongUInt"
      [] t = Float -> "Float"
      [] t = Double -> "Double"
      [] t = DecimalValue -> "DecimalValue"
      [] t = ShortString -> "ShortString"
      [] t = LongString -> "LongString"
      [] t = FieldArray -> "FieldArray"
      [] t = Timestamp -> "Timestamp"
      [] t = FieldTable -> "FieldTable"
      [] t = ByteArray -> "ByteArray"
      [] t = Void -> "Void"

\* Mutant of fmt: renders the wire tag instead of the variant.
Chr(c) ==
    IF c = 95 THEN "_"
    ELSE IF c \in 65..90 THEN UpperCase[c - 64] ELSE LowerCase[c - 96]

fmt_id(t) == Chr(get_id(t))

fmt(t) == Debug(t)

to_string(t) == fmt(t)

(***************************************************************************)
(* The caller of the type catalogue.                                       *)
(***************************************************************************)
TypeInit ==
    /\ id \in Chars
    /\ self \in AMQPType
    /\ from_id_ret = <<>>
    /\ get_id_ret = <<>>
    /\ to_string_ret = <<>>
    /\ roundtrip_ret = <<>>
    /\ back_id_ret = <<>>
    /\ back_type_ret = <<>>

\* AMQPType::from_id(id)
CallFromId ==
    /\ from_id_ret = <<>>
    /\ from_id_ret' = <<from_id(id)>>
    /\ UNCHANGED <<id, self, get_id_ret, to_string_ret, roundtrip_ret,
                   back_id_ret, back_type_ret>>
    /\ UNCHANGED loadVars

\* self.get_id()
CallGetId ==
    /\ get_id_ret = <<>>
    /\ get_id_ret' = <<get_id(self)>>
    /\ UNCHANGED <<id, self, from_id_ret, to_string_ret, roundtrip_ret,
                   back_id_ret, back_type_ret>>
    /\ UNCHANGED loadVars

\* self.to_string()
CallToString ==
    /\ to_string_ret = <<>>
    /\ to_string_ret' = <<to_string(self)>>
    /\ UNCHANGED <<id, self, from_id_ret, get_id_ret, roundtrip_ret,
                   back_id_ret, back_type_ret>>
    /\ UNCHANGED loadVars

\* AMQPType::from_id(self.get_id())
RoundTrip ==
    /\ get_id_ret # <<>>
    /\ roundtrip_ret = <<>>
    /\ roundtrip_ret' = <<from_id(get_id_ret[1])>>
    /\ UNCHANGED <<id, self, from_id_ret, get_id_ret, to_string_ret,
                   back_id_ret, back_type_ret>>
    /\ UNCHANGED loadVars

\* AMQPType::from_id(id).map(|t| t.get_id())
BackToId ==
    /\ from_id_ret # <<>>
    /\ from_id_ret[1].some
    /\ back_id_ret = <<>>
    /\ back_id_ret' = <<get_id(from_id_ret[1].val)>>
    /\ UNCHANGED <<id, self, from_id_ret, get_id_ret, to_string_ret,
                   roundtrip_ret, back_type_ret>>
    /\ UNCHANGED loadVars

\* AMQPType::from_id(t.get_id()) for the t that from_id(id) returned
BackToType ==
    /\ back_id_ret # <<>>
    /\ back_type_ret = <<>>
    /\ back_type_ret' = <<from_id(back_id_ret[1])>>
    /\ UNCHANGED <<id, self, from_id_ret, get_id_ret, to_string_ret,
                   roundtrip_ret, back_id_ret>>
    /\ UNCHANGED loadVars

(***************************************************************************)
(* serde_json::Value, as far as load distinguishes its values.             *)
(***************************************************************************)
Null == [kind |-> "Null"]
String(str) == [kind |-> "String", str |-> str]
Object(map) == [kind |-> "Object", map |-> map]

EmptyMap == [k \in {} |-> Null]

\* Result<T, E>
Ok(v) == [ok |-> TRUE, val |-> v]
Err(e) == [ok |-> FALSE, err |-> e]

(***************************************************************************)
(* The inputs of load.  A bundled resource is malformed (not JSON, or JSON *)
(* of another shape) or well-formed with the classes of a prefix of        *)
(* ClassPool; a metadata document maps class names to maps from method     *)
(* names to hints.                                                         *)
(***************************************************************************)
ClassPool == <<"connection", "channel", "exchange">>
MethodNames == {"open", "close"}

NumClasses == IF MaxClasses < Len(ClassPool) THEN MaxClasses ELSE Len(ClassPool)

RawMethods == <<[id |-> 10, name |-> "open"], [id |-> 40, name |-> "close"]>>

RawDefinition(n) ==
    [name |-> "AMQP",
     classes |-> [i \in 1..n |->
                     [id |-> 10 * i, name |-> ClassPool[i],
                      methods |-> RawMethods]]]

BundledResources ==
    {[json |-> "syntax error"], [json |-> "unexpected shape"]}
        \cup {[json |-> "well-formed", doc |-> RawDefinition(n)] :
                 n \in 0..NumClasses}

MapsOver(keys, values) ==
    UNION {[ks -> values] : ks \in SUBSET keys}

MethodHints == {Object(EmptyMap), Object([k \in {"rename"} |-> String("x")])}

ClassHints == {Object(m) : m \in MapsOver(MethodNames, MethodHints)}

MetadataDocuments ==
    {Object(m) :
        m \in MapsOver({ClassPool[i] : i \in 1..NumClasses}, ClassHints)}

MetadataArguments ==
    {None, Some(Null)} \cup {Some(d) : d \in MetadataDocuments}

(***************************************************************************)
(* The calls of specs.rs:41, in evaluation order:                          *)
(*   from_str::<_AMQProtocolDefinition>(specs)                             *)
(*       .expect("Failed to parse AMQP specs file")                        *)
(*       .into_specs(&metadata.unwrap_or_default())                        *)
(***************************************************************************)
\* serde_json::from_str::<_AMQProtocolDefinition>
from_str(text) ==
    IF text.json = "well-formed" THEN Ok(text.doc) ELSE Err(text.json)

\* Mutant of expect: falls back to an empty definition instead of panicking.
expect_or_default(result) ==
    [panic |-> FALSE,
     val |-> IF result.ok THEN result.val ELSE RawDefinition(0)]

\* Result::expect: the value of Ok, a panic on Err
expect(result) ==
    IF result.ok THEN [panic |-> FALSE, val |-> result.val]
    ELSE [panic |-> TRUE]

\* Mutant of unwrap_or_default: an empty object for an absent document.
unwrap_or_empty_object(option) ==
    IF option.some THEN option.val ELSE Object(EmptyMap)

\* Option::unwrap_or_default; Value::default() is Value::Null
unwrap_or_default(option) ==
    IF option.some THEN option.val ELSE Null

\* Value::get(key): the member of an object, None for any other value
get(value, key) ==
    IF value.kind = "Object" /\ key \in DOMAIN value.map
    THEN Some(value.map[key])
    ELSE None

\* _AMQProtocolDefinition::into_specs: every class and method record of the
\* parsed document, each with the hints the metadata document has for it
into_specs(rawdef, document) ==
    [name |-> rawdef.name,
     classes |->
        [i \in DOMAIN rawdef.classes |->
            LET class == rawdef.classes[i]
                class_md == get(document, class.name)
            IN  [id |-> class.id,
                 name |-> class.name,
                 metadata |-> unwrap_or_default(class_md),
                 methods |->
                    [j \in DOMAIN class.methods |->
                        LET method == class.methods[j]
                            method_md ==
                                IF class_md.some
                                THEN get(class_md.val, method.name)
                                ELSE None
                        IN  [id |-> method.id,
                             name |-> method.name,
                             metadata |-> unwrap_or_default(method_md)]]]]]

LoadInit ==
    /\ specs \in BundledResources
    /\ metadata \in MetadataArguments
    /\ pc = "from_str"
    /\ parsed = <<>>
    /\ raw = <<>>
    /\ md = <<>>
    /\ definition = <<>>

\* from_str::<_AMQProtocolDefinition>(specs)
FromStr ==
    /\ pc = "from_str"
    /\ parsed' = <<from_str(specs)>>
    /\ pc' = "expect"
    /\ UNCHANGED <<specs, metadata, raw, md, definition>>
    /\ UNCHANGED typeVars

\* .expect("Failed to parse AMQP specs file")
Expect ==
    /\ pc = "expect"
    /\ LET r == expect(parsed[1])
       IN  IF r.panic
           THEN /\ pc' = "panicked"
                /\ raw' = raw
           ELSE /\ pc' = "unwrap_or_default"
                /\ raw' = <<r.val>>
    /\ UNCHANGED <<specs, metadata, parsed, md, definition>>
    /\ UNCHANGED typeVars

\* metadata.unwrap_or_default()
UnwrapOrDefault ==
    /\ pc = "unwrap_or_default"
    /\ md' = <<unwrap_or_default(metadata)>>
    /\ pc' = "into_specs"
    /\ UNCHANGED <<specs, metadata, parsed, raw, definition>>
    /\ UNCHANGED typeVars

\* .into_specs(&...), whose value load returns
IntoSpecs ==
    /\ pc = "into_specs"
    /\ definition' = <<into_specs(raw[1], md[1])>>
    /\ pc' = "returned"
    /\ UNCHANGED <<specs, metadata, parsed, raw, md>>
    /\ UNCHANGED typeVars

\* the type catalogue with one input, never called
TypeIdle ==
    /\ id = Ord("t")
    /\ self = Boolean
    /\ from_id_ret = <<>>
    /\ get_id_ret = <<>>
    /\ to_string_ret = <<>>
    /\ roundtrip_ret = <<>>
    /\ back_id_ret = <<>>
    /\ back_type_ret = <<>>

\* load with one input, never called
LoadIdle ==
    /\ specs = [json |-> "well-formed", doc |-> RawDefinition(0)]
    /\ metadata = None
    /\ pc = "from_str"
    /\ parsed = <<>>
    /\ raw = <<>>
    /\ md = <<>>
    /\ definition = <<>>

vars == <<typeVars, loadVars>>

Init == TypeInit /\ LoadIdle

Next ==
    \/ CallFromId
    \/ CallGetId
    \/ CallToString
    \/ RoundTrip
    \/ BackToId
    \/ BackToType

Spec == Init /\ [][Next]_vars

LoadSpecInit == TypeIdle /\ LoadInit

LoadNext ==
    \/ FromStr
    \/ Expect
    \/ UnwrapOrDefault
    \/ IntoSpecs

LoadSpec == LoadSpecInit /\ [][LoadNext]_vars

(***************************************************************************)
(* The type catalogue: properties.                                         *)
(***************************************************************************)
\* the tag table as documented: <<tag, type>>
DocumentedTable ==
    {<<"t", Boolean>>, <<"b", ShortShortInt>>, <<"B", ShortShortUInt>>,
     <<"s", ShortInt>>, <<"U", ShortInt>>, <<"u", ShortUInt>>,
     <<"I", LongInt>>, <<"i", LongUInt>>, <<"L", LongLongInt>>,
     <<"l", LongLongInt>>, <<"f", Float>>, <<"d", Double>>,
     <<"D", DecimalValue>>, <<"S", LongString>>, <<"A", FieldArray>>,
     <<"T", Timestamp>>, <<"F", FieldTable>>, <<"x", ByteArray>>,
     <<"V", Void>>}

DocumentedTags == {Ord(p[1]) : p \in DocumentedTable}

\* the identifiers of the variants, in declaration order
VariantIdent ==
    <<"Boolean", "ShortShortInt", "ShortShortUInt", "ShortInt", "ShortUInt",
      "LongInt", "LongUInt", "LongLongInt", "LongLongUInt", "Float", "Double",
      "DecimalValue", "ShortString", "LongString", "FieldArray", "Timestamp",
      "FieldTable", "ByteArray", "Void">>

\* C1: from_id(c) is Some(the documented type) when c is one of the 19
\* documented tags and None for every other character; it always returns
\* an Option (it never fails).
C1_FromIdFollowsTable ==
    from_id_ret # <<>> =>
        /\ Cardinality(DocumentedTable) = 19
        /\ from_id_ret[1] \in {None} \cup {Some(t) : t \in AMQPType}
        /\ \A p \in DocumentedTable :
               Ord(p[1]) = id => from_id_ret[1] = Some(p[2])
        /\ id \notin DocumentedTags => from_id_ret[1] = None

C1_Witness ==
    /\ id = Ord("U")
    /\ from_id_ret = <<Some(ShortInt)>>

\* C2: from_id(get_id(x)) = Some(x) exactly when x is neither LongLongUInt
\* nor ShortString.
C2_RoundTripIff ==
    roundtrip_ret # <<>> =>
        (roundtrip_ret[1] = Some(self)
            <=> self \notin {LongLongUInt, ShortString})

C2_Witness ==
    /\ self = LongLongUInt
    /\ roundtrip_ret # <<>>
    /\ roundtrip_ret[1] # Some(self)

\* C3: get_id of LongLongInt and of LongLongUInt is the same tag 'l',
\* from_id of that tag is LongLongInt, and from_id never returns
\* LongLongUInt.
C3_LongLongCollapse ==
    /\ get_id_ret # <<>> /\ self \in {LongLongInt, LongLongUInt}
           => get_id_ret[1] = Ord("l")
    /\ roundtrip_ret # <<>> /\ self \in {LongLongInt, LongLongUInt}
           => roundtrip_ret[1] = Some(LongLongInt)
    /\ from_id_ret # <<>> /\ id = Ord("l")
           => from_id_ret[1] = Some(LongLongInt)
    /\ from_id_ret # <<>> => from_id_ret[1] # Some(LongLongUInt)

C3_Witness ==
    /\ self = LongLongUInt
    /\ get_id_ret = <<Ord("l")>>
    /\ roundtrip_ret = <<Some(LongLongInt)>>
    /\ id = Ord("L")
    /\ from_id_ret = <<Some(LongLongInt)>>

\* C4: get_id(ShortString) is the sentinel '_', from_id does not accept the
\* sentinel (from_id(get_id(ShortString)) is None), and no other variant's
\* get_id is the sentinel.
C4_ShortStringSentinel ==
    /\ get_id_ret # <<>> => (get_id_ret[1] = Ord("_") <=> self = ShortString)
    /\ roundtrip_ret # <<>> /\ self = ShortString => roundtrip_ret[1] = None
    /\ from_id_ret # <<>> /\ id = Ord("_") => from_id_ret[1] = None

C4_Witness ==
    /\ self = ShortString
    /\ get_id_ret = <<Ord("_")>>
    /\ roundtrip_ret = <<None>>

\* C5: from_id accepts 'L' and 'U', but get_id never returns either:
\* ShortInt gives 's' and both 64-bit integer variants give 'l'.
C5_AliasesAreInputOnly ==
    /\ from_id_ret # <<>> /\ id \in {Ord("L"), Ord("U")} => from_id_ret[1].some
    /\ get_id_ret # <<>> => get_id_ret[1] \notin {Ord("L"), Ord("U")}
    /\ get_id_ret # <<>> /\ self = ShortInt => get_id_ret[1] = Ord("s")
    /\ get_id_ret # <<>> /\ self \in {LongLongInt, LongLongUInt}
           => get_id_ret[1] = Ord("l")

C5_Witness ==
    /\ id = Ord("U")
    /\ from_id_ret # <<>>
    /\ from_id_ret[1].some
    /\ self = ShortInt
    /\ get_id_ret = <<Ord("s")>>

\* C6: get_id has a result for each of the 19 variants, and the result is
\* either a tag of the table, which from_id accepts, or the sentinel '_'.
C6_GetIdTotalIntoTable ==
    /\ Cardinality(AMQPType) = 19
    /\ \A t \in AMQPType : get_id(t) \in Chars
    /\ get_id_ret # <<>> => get_id_ret[1] \in DocumentedTags \cup {Ord("_")}
    /\ roundtrip_ret # <<>> =>
           roundtrip_ret[1].some \/ get_id_ret[1] = Ord("_")

C6_Witness ==
    /\ self = ByteArray
    /\ get_id_ret = <<Ord("x")>>
    /\ roundtrip_ret = <<Some(ByteArray)>>

\* C9: to_string of a variant is the variant's identifier ("Boolean" for
\* Boolean, "Void" for Void); no other variant renders to the same text,
\* not even one with the same wire tag, and the text is not the wire tag.
C9_DisplayIsIdentifier ==
    to_string_ret # <<>> =>
        /\ to_string_ret[1] = VariantIdent[self + 1]
        /\ self = Boolean => to_string_ret[1] = "Boolean"
        /\ self = Void => to_string_ret[1] = "Void"
        /\ \A t \in AMQPType \ {self} : to_string(t) # to_string_ret[1]
        /\ to_string_ret[1] # Chr(get_id(self))

C9_Witness ==
    /\ self = LongLongUInt
    /\ to_string_ret = <<"LongLongUInt">>
    /\ get_id_ret = <<Ord("l")>>

\* C10: for an accepted character c with from_id(c) = Some(t), get_id(t) is
\* c, except 's' for c = 'U' and 'l' for c = 'L'; and from_id(get_id(t)) is
\* Some(t) again.
C10_NormaliseIdempotent ==
    /\ back_id_ret # <<>> =>
           back_id_ret[1] = (IF id = Ord("U") THEN Ord("s")
                             ELSE IF id = Ord("L") THEN Ord("l")
                             ELSE id)
    /\ back_type_ret # <<>> => back_type_ret[1] = from_id_ret[1]
    /\ back_type_ret # <<>> =>
           get_id(back_type_ret[1].val) = back_id_ret[1]

C10_Witness ==
    /\ id = Ord("U")
    /\ back_id_ret = <<Ord("s")>>
    /\ back_type_ret = <<Some(ShortInt)>>

(***************************************************************************)
(* The loader: properties.                                                 *)
(***************************************************************************)
WellFormed(text) == text.json = "well-formed"

\* every class and method record of the resource is in the definition, with
\* its id and name and with a metadata member
Complete(def, text) ==
    /\ DOMAIN def = {"name", "classes"}
    /\ def.name = text.doc.name
    /\ DOMAIN def.classes = DOMAIN text.doc.classes
    /\ \A i \in DOMAIN def.classes :
           LET class == def.classes[i]
               source == text.doc.classes[i]
           IN  /\ DOMAIN class = {"id", "name", "metadata", "methods"}
               /\ class.id = source.id
               /\ class.name = source.name
               /\ DOMAIN class.methods = DOMAIN source.methods
               /\ \A j \in DOMAIN class.methods :
                      /\ DOMAIN class.methods[j] = {"id", "name", "metadata"}
                      /\ class.methods[j].id = source.methods[j].id
                      /\ class.methods[j].name = source.methods[j].name

\* C7 as claimed: called with None, load merges an empty object, the value
\* load(Some(empty object)) merges.
C7_NoneMergesEmptyObject ==
    md # <<>> /\ metadata = None => md[1] = Object(EmptyMap)

\* C7 as amended: called with None, load merges the default of the document
\* type, which is null and not an empty object: the value load(Some(null))
\* merges.
C7_NoneMergesNull ==
    /\ md # <<>> /\ metadata \in {None, Some(Null)} => md[1] = Null
    /\ md # <<>> /\ metadata = None => md[1] # Object(EmptyMap)
    /\ md # <<>> /\ metadata = Some(Object(EmptyMap))
           => md[1] = Object(EmptyMap)

C7_Witness ==
    /\ metadata = None
    /\ md = <<Null>>
    /\ pc = "returned"
    /\ Len(definition[1].classes) = 2

\* Not C7 itself: under the merge as modelled (hints looked up by class and
\* method name), what load(None) returns is what load(Some(empty object))
\* returns, because neither null nor an empty object has a member.
LoadNoneReturnsAsForEmptyObject ==
    pc = "returned" /\ metadata = None
        => definition[1] = into_specs(raw[1], Object(EmptyMap))

\* C8: load either returns a complete definition, and then the resource is
\* well-formed, or panics, and then the resource is malformed and no merge
\* step (unwrap_or_default, into_specs) has run; a well-formed resource
\* never panics, a malformed one never gets past expect, and the caller
\* never sees an error value or a definition before load has returned.
C8_LoadAllOrNothing ==
    /\ pc = "panicked" =>
           /\ ~WellFormed(specs)
           /\ md = <<>>
           /\ definition = <<>>
    /\ pc = "returned" =>
           /\ WellFormed(specs)
           /\ definition # <<>>
           /\ Complete(definition[1], specs)
    /\ definition # <<>> => pc = "returned"
    /\ WellFormed(specs) => pc # "panicked"
    /\ ~WellFormed(specs) => pc \in {"from_str", "expect", "panicked"}
    /\ ~ENABLED LoadNext => pc \in {"returned", "panicked"}

C8_Witness ==
    /\ pc = "panicked"
    /\ parsed = <<Err("unexpected shape")>>
    /\ metadata # None

====
